---- MODULE Spec2Model ----
(***************************************************************************)
(* FUSE / YECS: the multi-step applicant form, its profile store, the      *)
(* heuristic scorer and the model-backed score request.                    *)
(*                                                                         *)
(* Two frontend variants exist in the repository:                          *)
(*   "heuristic"  src/frontend/src/app.js   (score computed in the page)   *)
(*   "gateway"    src/unnamed/part_001      (score fetched from backend)   *)
(* The variable `variant` says which of the two bundles is running.        *)
(***************************************************************************)
EXTENDS Integers, Sequences, FiniteSets, TLC

VARIABLES
    variant,       \* which frontend bundle runs
    configured,    \* firebaseConfig.apiKey present, so auth / db are non-null
    boot,          \* position of the auth effect of AppProvider
    page,          \* useState('register')
    loading,       \* useState(true)
    error,         \* useState(null)
    userId,        \* useState(null)
    formData,      \* useState({personal, business, financials, documents})
    score,         \* app.js: useState(null)
    scoreData,     \* part_001: useState(null)
    localData,     \* the mounted page's useState(formData.<section>)
    files,         \* FinancialDataPage: useState([])
    isCalculating, \* part_001 FinancialDataPage: useState(false)
    scoreReq,      \* body of the score request in flight (part_001), or NoRequest
    stored,        \* the user's document in the external store
    writes,        \* setDoc calls not yet settled, oldest first
    lastWrite,     \* the latest setDoc call: the step that made it and its payload
    jitter,        \* the last Math.random() * 100 draw, in units of 1/JitterScale
    alerted,       \* whether window.alert was shown by the last score request
    merge0,        \* the profile before the first updateFormData call of a merge run
    merged,        \* the updateFormData calls of a merge run, in order
    insights,      \* part_001 AIDashboard: useState(null)
    isLoadingInsights, \* part_001 AIDashboard: useState(true)
    insightsReq,   \* the insights request in flight (part_001), or NoRequest
    isOpen,        \* app.js YecsCopilot: useState(false)
    messages,      \* app.js YecsCopilot: useState([greeting])
    input,         \* app.js YecsCopilot: useState(''), as a sequence of characters
    isThinking,    \* app.js YecsCopilot: useState(false)
    chatReqs,      \* the chat requests to the external model not yet settled
    sends          \* the calls of handleSend of YecsCopilot: how many so far, and the
                   \* input and the thinking flag that the last one read

vars == <<variant, configured, boot, page, loading, error, userId, formData,
          score, scoreData, localData, files, isCalculating, scoreReq,
          stored, writes, lastWrite, jitter, alerted, merge0, merged,
          insights, isLoadingInsights, insightsReq,
          isOpen, messages, input, isThinking, chatReqs, sends>>

\* the state of AIDashboard (part_001) and of YecsCopilot (app.js)
dashVars == <<insights, isLoadingInsights, insightsReq>>
chatVars == <<isOpen, messages, input, isThinking, chatReqs, sends>>
formVars == <<variant, configured, boot, page, loading, error, userId, formData,
              score, scoreData, localData, files, isCalculating, scoreReq,
              stored, writes, lastWrite, jitter, alerted, merge0, merged>>

----------------------------------------------------------------------------
(* JavaScript values.  Every primitive is a record of one shape so that any *)
(* two of them can be compared.                                            *)

Undef == [t |-> "undefined", s |-> "", n |-> 0]
Null == [t |-> "null", s |-> "", n |-> 0]
NaN == [t |-> "nan", s |-> "", n |-> 0]
Str(x) == [t |-> "string", s |-> x, n |-> 0]
Num(k) == [t |-> "number", s |-> "", n |-> k]

\* The numeric strings an <input type="number"> of the model can hold, with
\* the number each one denotes.
NumericStrings ==
    [x \in {"0", "2", "3", "21", "3000", "3500", "3501", "4000", "9000", "9001",
            "10000", "50000", "50001", "60000"} |->
        CASE x = "0" -> 0 [] x = "2" -> 2 [] x = "3" -> 3 [] x = "21" -> 21
          [] x = "3000" -> 3000 [] x = "3500" -> 3500 [] x = "3501" -> 3501
          [] x = "4000" -> 4000 [] x = "9000" -> 9000 [] x = "9001" -> 9001
          [] x = "10000" -> 10000 [] x = "50000" -> 50000
          [] x = "50001" -> 50001 [] x = "60000" -> 60000]

\* ToNumber of the language: undefined -> NaN, null -> 0, '' -> 0, a numeric
\* string -> its number, any other string -> NaN.
ToNumber(v) ==
    CASE v.t = "number" -> v
      [] v.t = "null" -> Num(0)
      [] v.t = "string" ->
            IF v.s = "" THEN Num(0)
            ELSE IF v.s \in DOMAIN NumericStrings THEN Num(NumericStrings[v.s])
            ELSE NaN
      [] OTHER -> NaN

\* ToBoolean: undefined, null, NaN, 0 and '' are falsy.
Truthy(v) ==
    CASE v.t = "number" -> v.n # 0
      [] v.t = "string" -> v.s # ""
      [] OTHER -> FALSE

\* a || b
Or(a, b) == IF Truthy(a) THEN a ELSE b

\* a - b and a * b on numbers (NaN is contagious)
Minus(a, b) ==
    LET x == ToNumber(a)
        y == ToNumber(b)
    IN  IF x.t = "number" /\ y.t = "number" THEN Num(x.n - y.n) ELSE NaN

Times(a, b) ==
    LET x == ToNumber(a)
        y == ToNumber(b)
    IN  IF x.t = "number" /\ y.t = "number" THEN Num(x.n * y.n) ELSE NaN

\* a > b where at least one side is a number: numeric comparison, false
\* as soon as one side is NaN.
Gt(a, b) ==
    LET x == ToNumber(a)
        y == ToNumber(b)
    IN  x.t = "number" /\ y.t = "number" /\ x.n > y.n

----------------------------------------------------------------------------
(* JavaScript objects and arrays: own properties keyed by strings.  An     *)
(* array is an object whose keys are "0", "1", ... and which is an Array.  *)

IndexKeys == <<"0", "1", "2", "3", "4", "5">>

Obj(props) == [isArray |-> FALSE, props |-> props]

EmptyProps == [k \in {} |-> Undef]

ArrayOf(seq) ==
    [isArray |-> TRUE,
     props |-> [k \in {IndexKeys[i] : i \in 1..Len(seq)} |->
                  seq[CHOOSE i \in 1..Len(seq) : IndexKeys[i] = k]]]

Keys(o) == DOMAIN o.props

\* o.k : undefined when o has no such property
Get(o, k) == IF k \in Keys(o) THEN o.props[k] ELSE Undef

\* { ...a, ...b } : a plain object with the own properties of a, then of b
Spread(a, b) ==
    Obj([k \in Keys(a) \cup Keys(b) |->
            IF k \in Keys(b) THEN b.props[k] ELSE a.props[k]])

\* { ...o, [k]: v }
With(o, k, v) ==
    Obj([j \in Keys(o) \cup {k} |-> IF j = k THEN v ELSE o.props[j]])

\* A missing section of a record of sections reads as undefined, and
\* spreading undefined adds nothing.
Section(fd, s) == IF s \in DOMAIN fd THEN fd[s] ELSE Obj(EmptyProps)

----------------------------------------------------------------------------
(* The applicant profile (formData): a record of sections.                 *)

SectionNames == {"personal", "business", "financials", "documents"}

PersonalKeys == {"firstName", "lastName", "email", "age"}
BusinessKeys == {"businessName", "industry", "businessStage", "yearsExperience",
                 "educationLevel", "revenueProjection"}
FinancialKeys == {"monthlyIncome", "monthlyExpenses", "savingsAmount", "debtAmount"}

Blank(keys) == Obj([k \in keys |-> Str("")])

\* useState({...}) of AppProvider in app.js: four sections
InitialFormDataHeuristic ==
    [s \in SectionNames |->
        CASE s = "personal" -> Blank(PersonalKeys)
          [] s = "business" -> Blank(BusinessKeys)
          [] s = "financials" -> Blank(FinancialKeys)
          [] s = "documents" -> ArrayOf(<<>>)]

\* useState({...}) of AppProvider in part_001: no documents section
InitialFormDataGateway ==
    [s \in SectionNames \ {"documents"} |->
        CASE s = "personal" -> Blank(PersonalKeys)
          [] s = "business" -> Blank(BusinessKeys)
          [] s = "financials" -> Blank(FinancialKeys)]

InitialFormData(v) ==
    IF v = "heuristic" THEN InitialFormDataHeuristic ELSE InitialFormDataGateway

\* Mutant: whole-record replacement, the sibling sections are dropped
updateFormData_replace(prev, section, data) ==
    [s \in {section} |-> Spread(Section(prev, section), data)]

\* Mutant: the spreads in the wrong order, so the existing values win
updateFormData_prevWins(prev, section, data) ==
    [s \in DOMAIN prev \cup {section} |->
        IF s = section THEN Spread(data, Section(prev, section)) ELSE prev[s]]

\* app.js: prev => ({ ...prev, [section]: { ...prev[section], ...data } })
updateFormData(prev, section, data) ==
    [s \in DOMAIN prev \cup {section} |->
        IF s = section THEN Spread(Section(prev, section), data) ELSE prev[s]]

\* part_001: prev => ({ ...prev, <section>: localData })
setSection(prev, section, data) ==
    [s \in DOMAIN prev \cup {section} |-> IF s = section THEN data ELSE prev[s]]

\* restore after getDoc: prev => ({ ...prev, ...data })
restoreFormData(prev, data) ==
    [s \in DOMAIN prev \cup DOMAIN data |-> IF s \in DOMAIN data THEN data[s] ELSE prev[s]]

\* files.map(f => ({ name: f.name, size: f.size, type: f.type }))
Descriptor(f) == [name |-> f.name, size |-> f.size, type |-> f.type]

Descriptors(fs) == ArrayOf([i \in 1..Len(fs) |-> Descriptor(fs[i])])

----------------------------------------------------------------------------
(* The heuristic scorer: calculateScore of FinancialDataPage in app.js.    *)

BaseScore == 300
RevenueThreshold == 50000
RevenueBonus == 50
ExperienceThreshold == 2
ExperienceBonus == 40
StageBonus == 35
CashFlowThreshold == 500
CashFlowBonus == 60
SavingsMonths == 3
SavingsBonus == 40
JitterRange == 100
MaxScore == 850

BonusStages == {"MVP Ready", "Early Customers", "Revenue Generating"}

\* Math.random() * 100 is a real number in [0, 100).  A draw is a whole number
\* of 1/JitterScale units, so that draws with a fractional part exist.
JitterScale == 2

\* The draws the model makes: the least, the least that rounds up, the middle
\* and the greatest below 100.
JitterDraws ==
    {0, (JitterScale + 1) \div 2, (JitterRange * JitterScale) \div 2,
     JitterRange * JitterScale - 1}

\* Math.round(num / den), den > 0: the nearest integer, halves rounded up
MathRound(num, den) == (2 * num + den) \div (2 * den)

MathMin(a, b) == IF a < b THEN a ELSE b

\* Mutant: the savings bonus without its monthlyExpenses > 0 guard
Adjustments_noExpenseGuard(business, financials) ==
    LET cashFlow == Minus(Or(Get(financials, "monthlyIncome"), Num(0)),
                          Or(Get(financials, "monthlyExpenses"), Num(0)))
    IN  (IF Gt(Get(business, "revenueProjection"), Num(RevenueThreshold))
            THEN RevenueBonus ELSE 0)
      + (IF Gt(Get(business, "yearsExperience"), Num(ExperienceThreshold))
            THEN ExperienceBonus ELSE 0)
      + (IF Get(business, "businessStage").t = "string"
            /\ Get(business, "businessStage").s \in BonusStages
            THEN StageBonus ELSE 0)
      + (IF Gt(cashFlow, Num(CashFlowThreshold)) THEN CashFlowBonus ELSE 0)
      + (IF Gt(Or(Get(financials, "savingsAmount"), Num(0)),
               Times(Get(financials, "monthlyExpenses"), Num(SavingsMonths)))
            THEN SavingsBonus ELSE 0)

\* Mutant: 'MVP Ready' missing from the list of stages that earn the bonus
Adjustments_noMvpStage(business, financials) ==
    LET cashFlow == Minus(Or(Get(financials, "monthlyIncome"), Num(0)),
                          Or(Get(financials, "monthlyExpenses"), Num(0)))
    IN  (IF Gt(Get(business, "revenueProjection"), Num(RevenueThreshold))
            THEN RevenueBonus ELSE 0)
      + (IF Gt(Get(business, "yearsExperience"), Num(ExperienceThreshold))
            THEN ExperienceBonus ELSE 0)
      + (IF Get(business, "businessStage").t = "string"
            /\ Get(business, "businessStage").s \in BonusStages \ {"MVP Ready"}
            THEN StageBonus ELSE 0)
      + (IF Gt(cashFlow, Num(CashFlowThreshold)) THEN CashFlowBonus ELSE 0)
      + (IF Gt(Get(financials, "monthlyExpenses"), Num(0))
            /\ Gt(Or(Get(financials, "savingsAmount"), Num(0)),
                  Times(Get(financials, "monthlyExpenses"), Num(SavingsMonths)))
            THEN SavingsBonus ELSE 0)

\* The points added before the jitter (lines 451 to 457)
Adjustments(business, financials) ==
    LET cashFlow == Minus(Or(Get(financials, "monthlyIncome"), Num(0)),
                          Or(Get(financials, "monthlyExpenses"), Num(0)))
    IN  (IF Gt(Get(business, "revenueProjection"), Num(RevenueThreshold))
            THEN RevenueBonus ELSE 0)
      + (IF Gt(Get(business, "yearsExperience"), Num(ExperienceThreshold))
            THEN ExperienceBonus ELSE 0)
      + (IF Get(business, "businessStage").t = "string"
            /\ Get(business, "businessStage").s \in BonusStages
            THEN StageBonus ELSE 0)
      + (IF Gt(cashFlow, Num(CashFlowThreshold)) THEN CashFlowBonus ELSE 0)
      + (IF Gt(Get(financials, "monthlyExpenses"), Num(0))
            /\ Gt(Or(Get(financials, "savingsAmount"), Num(0)),
                  Times(Get(financials, "monthlyExpenses"), Num(SavingsMonths)))
            THEN SavingsBonus ELSE 0)

\* Mutant: the score starts at 0 instead of 300
calculateScore_zeroBase(fd, local, j) ==
    LET fullData == [s \in DOMAIN fd \cup {"financials"} |->
                        IF s = "financials"
                        THEN Spread(Section(fd, "financials"), local) ELSE fd[s]]
        total == Adjustments(fullData["business"], fullData["financials"]) * JitterScale + j
    IN  Num(MathMin(MathRound(total, JitterScale), MaxScore))

\* Mutant: the score is computed from the financials of the profile as
\* rendered, without the values of the form
calculateScore_stale(fd, local, j) ==
    LET total == (BaseScore + Adjustments(fd["business"], fd["financials"]))
                    * JitterScale + j
    IN  Num(MathMin(MathRound(total, JitterScale), MaxScore))

\* calculateScore: fd is the formData of the render, local the page's
\* localData, j the random draw in 1/JitterScale units.
calculateScore(fd, local, j) ==
    LET fullData == setSection(fd, "financials", Spread(Section(fd, "financials"), local))
        total == (BaseScore + Adjustments(fullData["business"], fullData["financials"]))
                    * JitterScale + j
    IN  Num(MathMin(MathRound(total, JitterScale), MaxScore))

----------------------------------------------------------------------------
(* The external identity and document store, and what the user can type.   *)

NoError == "(null)"
NotConfiguredMsg == "Firebase is not configured. Please check your setup."
ReadFailedMsg == "Could not retrieve your profile. Please try again later."
TokenFailedMsg == "Authentication failed."
AnonFailedMsg == "Anonymous authentication failed."
SaveFailedMsg == "Failed to save data."

NoUser == "(null)"
Uid == "uid-1"

NoDoc == [exists |-> FALSE, data |-> <<>>]
Doc(d) == [exists |-> TRUE, data |-> d]

\* A document left by an earlier session: every section present.
EarlierDoc ==
    Doc([s \in SectionNames |->
        CASE s = "personal" ->
                Obj([k \in PersonalKeys |->
                    CASE k = "firstName" -> Str("Ada") [] k = "lastName" -> Str("King")
                      [] k = "email" -> Str("ada@example.org") [] k = "age" -> Str("21")])
          [] s = "business" ->
                Obj([k \in BusinessKeys |->
                    CASE k = "businessName" -> Str("Acme") [] k = "industry" -> Str("Tech")
                      [] k = "businessStage" -> Str("Idea Stage")
                      [] k = "yearsExperience" -> Str("2")
                      [] k = "educationLevel" -> Str("BSc")
                      [] k = "revenueProjection" -> Str("50000")])
          [] s = "financials" ->
                Obj([k \in FinancialKeys |->
                    CASE k = "monthlyIncome" -> Str("3500") [] k = "monthlyExpenses" -> Str("3000")
                      [] k = "savingsAmount" -> Str("9000") [] k = "debtAmount" -> Str("0")])
          [] s = "documents" ->
                ArrayOf(<<[name |-> "old-1.pdf", size |-> 11, type |-> "application/pdf"],
                          [name |-> "old-2.pdf", size |-> 12, type |-> "application/pdf"]>>)])

\* A document holding parts of two sections only, with numbers as values.
PartialDoc ==
    Doc([s \in {"business", "financials"} |->
        IF s = "business"
        THEN Obj([k \in {"revenueProjection"} |-> Num(60000)])
        ELSE Obj([k \in {"monthlyIncome"} |-> Num(4000)])])

StoredDocs == {NoDoc, EarlierDoc, PartialDoc}

\* What the user types into each field: <<name, value>>.
PersonalInputs ==
    {<<"firstName", "Grace">>, <<"lastName", "Hopper">>,
     <<"email", "grace@example.org">>, <<"age", "21">>}
BusinessInputs ==
    {<<"businessName", "Acme">>, <<"industry", "Tech">>,
     <<"businessStage", "Idea Stage">>, <<"businessStage", "MVP Ready">>,
     <<"yearsExperience", "2">>, <<"yearsExperience", "3">>,
     <<"educationLevel", "BSc">>,
     <<"revenueProjection", "50000">>, <<"revenueProjection", "60000">>}
FinancialInputs ==
    {<<"monthlyIncome", "3500">>, <<"monthlyIncome", "4000">>,
     <<"monthlyExpenses", "3000">>,
     <<"savingsAmount", "10000">>,
     <<"debtAmount", "0">>}

Inputs(p) ==
    CASE p = "register" -> PersonalInputs
      [] p = "business" -> BusinessInputs
      [] p = "financials" -> FinancialInputs
      [] OTHER -> {}

\* The files a user can pick in one file dialog
File1 == [name |-> "bank.pdf", size |-> 10, type |-> "application/pdf", content |-> "c1"]
File2 == [name |-> "tax.png", size |-> 20, type |-> "image/png", content |-> "c2"]
FilePicks == {<<File1>>, <<File1, File2>>}
MaxFiles == 2

\* parseFloat of a field value
ParseFloat(x) == IF x \in DOMAIN NumericStrings THEN Num(NumericStrings[x]) ELSE NaN

----------------------------------------------------------------------------
(* What is on screen: MainContent.                                         *)

\* if (loading) return <LoadingScreen />; if (error) return <ErrorDisplay />;
PageShown == ~loading /\ error = NoError

ErrorShown == ~loading /\ error # NoError

\* <input required value={value || ''}>: the form submits only when every
\* field shows a non-empty value
Required(local, keys) == \A k \in keys : Truthy(Get(local, k))

PageOrder == <<"register", "business", "financials", "score", "dashboard">>

----------------------------------------------------------------------------
(* The dashboard of app.js and its chat (YecsCopilot).  A text is a        *)
(* sequence of characters; a fixed text of the program is one item.        *)

\* (debt / 12) / income * 100, then toFixed(2): a text of two decimals,
\* held as the number of hundredths it denotes
Dti(financials) ==
    LET income == ToNumber(Get(financials, "monthlyIncome"))
        debt == ToNumber(Or(Get(financials, "debtAmount"), Num(0)))
    IN  IF Gt(Get(financials, "monthlyIncome"), Num(0))
        THEN IF debt.t = "number"
             THEN [t |-> "fixed2", s |-> "", n |-> MathRound(debt.n * 10000, 12 * income.n)]
             ELSE [t |-> "fixed2", s |-> "NaN", n |-> 0]
        ELSE [t |-> "fixed2", s |-> "", n |-> 0]

\* MainContent: the userData prop of AIDashboard and of YecsCopilot
userDataForDashboard(fd, sc) ==
    [score |-> Or(sc, Num(0)),
     riskLevel |-> IF Gt(sc, Num(700)) THEN "Low"
                   ELSE IF Gt(sc, Num(600)) THEN "Medium" ELSE "High",
     businessStage |-> Get(Section(fd, "business"), "businessStage"),
     industry |-> Get(Section(fd, "business"), "industry"),
     income |-> Get(Section(fd, "financials"), "monthlyIncome"),
     expenses |-> Get(Section(fd, "financials"), "monthlyExpenses"),
     dti |-> Dti(Section(fd, "financials")),
     cashFlow |-> Minus(Or(Get(Section(fd, "financials"), "monthlyIncome"), Num(0)),
                        Or(Get(Section(fd, "financials"), "monthlyExpenses"), Num(0)))]

Whitespace == {" ", "\t", "\n"}

RECURSIVE TrimStart(_)
TrimStart(text) ==
    IF text # <<>> /\ Head(text) \in Whitespace THEN TrimStart(Tail(text)) ELSE text

RECURSIVE TrimEnd(_)
TrimEnd(text) ==
    IF text # <<>> /\ text[Len(text)] \in Whitespace
    THEN TrimEnd(SubSeq(text, 1, Len(text) - 1))
    ELSE text

\* String.prototype.trim
Trim(text) == TrimEnd(TrimStart(text))

Message(sender, text) == [sender |-> sender, text |-> text]

Greeting ==
    <<"Hello! I'm YECS Copilot. How can I help you improve your funding readiness today?">>
NoReplyText ==
    <<"I couldn't generate a response right now. Please try asking differently.">>
TroubleText ==
    <<"I'm having trouble connecting to my brain. Please check the console for errors.">>

\* What the user can have in the text field after a change event
ChatInputs == {<<>>, <<" ", "\t">>, <<"h", "i">>, <<" ", "h", "i", " ">>}

\* The texts the external model can answer with
ModelReplies ==
    {<<>>, <<"*", "*", "o", "k", "*", "*", "\n", "<img src=x onerror=alert(1)>">>}

\* The ways a chat request can settle: candidates[0].content.parts[0].text
\* is read, the body has no candidates, or fetch / response.json() /
\* the property chain throws
ChatOutcomes ==
    {[kind |-> "text", text |-> r] : r \in ModelReplies}
        \cup {[kind |-> "noCandidates", text |-> <<>>], [kind |-> "thrown", text |-> <<>>]}

\* The positions from which the marker (one or two stars) is read in text
MarkerAt(text, stars) ==
    {i \in 1..(Len(text) - stars + 1) : \A k \in 0..(stars - 1) : text[i + k] = "*"}

Least(S) == CHOOSE i \in S : \A j \in S : i <= j

\* text.replace(/<marker>(.*?)<marker>/g, open + '$1' + close): the first
\* marker, the nearest marker after it, and so on to the right of that
RECURSIVE replaceMarked(_, _, _, _)
replaceMarked(text, stars, open, close) ==
    IF MarkerAt(text, stars) = {} THEN text
    ELSE LET i == Least(MarkerAt(text, stars))
             closing == {j \in MarkerAt(text, stars) : j >= i + stars}
         IN  IF closing = {} THEN text
             ELSE LET j == Least(closing)
                  IN  SubSeq(text, 1, i - 1) \o <<open>> \o SubSeq(text, i + stars, j - 1)
                        \o <<close>>
                        \o replaceMarked(SubSeq(text, j + stars, Len(text)), stars, open, close)

\* text.replace(/\n/g, '<br />')
replaceNewlines(text) == [i \in DOMAIN text |-> IF text[i] = "\n" THEN "<br />" ELSE text[i]]

\* the __html of a message: the three replace calls, nothing else
Markup(text) ==
    replaceMarked(replaceMarked(replaceNewlines(text), 2, "<strong>", "</strong>"),
                  1, "<em>", "</em>")

\* a chat request whose fetch has neither resolved nor rejected yet
NoOutcome == [kind |-> "pending", text |-> <<>>]

\* [...prev, message]
AppendMessage_prepend(prev, message) == <<message>> \o prev
AppendMessage(prev, message) == prev \o <<message>>

\* if (!input.trim() || isThinking) return;
SendRejected_noTrim(text, thinking) == text = <<>> \/ thinking
SendRejected_notThinking(text, thinking) == Trim(text) = <<>>
SendRejected(text, thinking) == Trim(text) = <<>> \/ thinking

\* Mutant: the text of the model is taken as it is, empty or not
aiResponseText_raw(outcome) ==
    CASE outcome.kind = "text" -> outcome.text
      [] outcome.kind = "thrown" -> TroubleText
      [] OTHER -> NoReplyText

\* the text of the ai message appended when a chat request settles
aiResponseText(outcome) ==
    CASE outcome.kind = "text" /\ outcome.text # <<>> -> outcome.text
      [] outcome.kind = "thrown" -> TroubleText
      [] OTHER -> NoReplyText

----------------------------------------------------------------------------
(* The backend (part_000).  The text the external model answers with is a  *)
(* sequence of tokens: white space, the fence of three backquotes, the     *)
(* word "json", prose, and tokens that each stand for one JSON document.   *)

IsObject(v) == "props" \in DOMAIN v

\* v.k of the language, for v that is not null or undefined
Prop(v, k) == IF IsObject(v) THEN Get(v, k) ELSE Undef

\* ToBoolean of any value: every object is truthy
TruthyValue(v) == IF IsObject(v) THEN TRUE ELSE Truthy(v)

LoanRec(type) == Obj([type |-> Str(type), rate |-> Str("6.5%"),
                      amount |-> Str("$50,000"), reason |-> Str("fits")])
Improvement(title) == Obj([title |-> Str(title), action |-> Str("do"),
                           impact |-> Str("+15-25 points")])

\* The JSON documents of the model, each with the value json.loads gives
JsonDocuments ==
    [doc \in {"score720", "score900", "scoreAbsent", "zero", "null", "declined",
              "bundle32", "bundle12", "bundleBare"} |->
        CASE doc = "score720" -> Obj([yecs_score |-> Num(720), risk_level |-> Str("Low")])
          [] doc = "score900" -> Obj([yecs_score |-> Num(900), risk_level |-> Str("Low")])
          [] doc = "scoreAbsent" -> Obj([risk_level |-> Str("High")])
          [] doc = "zero" -> Num(0)
          [] doc = "null" -> Null
          [] doc = "declined" -> Obj([error |-> Str("cannot say")])
          [] doc = "bundle32" ->
                Obj([marketAlert |-> Str("rates fell"),
                     loanRecommendations |->
                        ArrayOf(<<LoanRec("SBA Microloan"), LoanRec("Line of Credit"),
                                  LoanRec("Term Loan")>>),
                     creditImprovements |->
                        ArrayOf(<<Improvement("Optimize"), Improvement("Build")>>)])
          [] doc = "bundle12" ->
                Obj([marketAlert |-> Str("rates fell"),
                     loanRecommendations |-> ArrayOf(<<LoanRec("SBA Microloan")>>),
                     creditImprovements |->
                        ArrayOf(<<Improvement("Optimize"), Improvement("Build")>>)])
          [] doc = "bundleBare" -> Obj([marketAlert |-> Str("rates fell")])]

\* the token that stands for three backquotes
Fence == "[fence]"

\* A JSON object with a string that holds three backquotes, as the tokens
\* before, at and after them; and what is left of it without them
SplitDocuments ==
    [text \in {<<"{score 720, reasoning:", Fence, "}">>, <<"{score 720, reasoning:", "}">>} |->
        IF Len(text) = 3
        THEN Obj([yecs_score |-> Num(720), reasoning |-> Str(Fence)])
        ELSE Obj([yecs_score |-> Num(720), reasoning |-> Str("")])]

\* The texts the external model can answer a score prompt with
ScoreTexts ==
    {<<doc>> : doc \in {"score720", "score900", "scoreAbsent", "zero", "null", "declined"}}
        \cup {<<Fence, "json", "\n", "score720", "\n", Fence>>,
              <<"{score 720, reasoning:", Fence, "}">>,
              <<Fence, "json", "\n", "{score 720, reasoning:", Fence, "}", "\n", Fence>>,
              <<>>}

\* The texts the external model can answer an insights prompt with
InsightsTexts ==
    {<<doc>> : doc \in {"bundle32", "bundle12", "bundleBare", "null"}}
        \cup {<<"\n", Fence, "\n", "bundle32", "\n", Fence, "\n">>,
              <<"bundle32", "bundle32">>}

\* What call_gemini_api returns: a dict with "error" (no key configured, or
\* the request failed or was answered with a bad status), or the JSON of the
\* external model's answer: without candidates, with an empty or a null
\* list of candidates, with a text that is not a string, or with a text
GeminiResponses(texts) ==
    {[kind |-> k, text |-> <<>>] :
        k \in {"noKey", "unavailable", "noCandidates", "emptyCandidates",
                "nullCandidates", "nonStringText"}}
        \cup {[kind |-> "text", text |-> text] : text \in texts}

\* call_gemini_api was not called
NotCalled == [kind |-> "notCalled", text |-> <<>>]

\* request.get_json() when the request has no body
MissingBody == Null

\* not user_data: None and the empty object
NoData(user_data) ==
    IF DOMAIN user_data = {"t", "s", "n"} THEN ~Truthy(user_data) ELSE DOMAIN user_data = {}

\* str.strip()
strip(text) == TrimEnd(TrimStart(text))

\* str.replace(fence + 'json', '')
RECURSIVE replaceFenceJson(_)
replaceFenceJson(text) ==
    IF Len(text) < 2 THEN text
    ELSE IF text[1] = Fence /\ text[2] = "json"
         THEN replaceFenceJson(SubSeq(text, 3, Len(text)))
         ELSE <<text[1]>> \o replaceFenceJson(Tail(text))

\* str.replace(fence, '')
replaceFence(text) == SelectSeq(text, LAMBDA tok : tok # Fence)

\* response_text.strip().replace(fence + 'json', '').replace(fence, '')
cleaned_text(response_text) == replaceFence(replaceFenceJson(strip(response_text)))

\* json.loads: one document, white space allowed around it; anything else
\* raises JSONDecodeError
jsonLoads(text) ==
    LET body == strip(text)
    IN  IF Len(body) = 1 /\ body[1] \in DOMAIN JsonDocuments
        THEN [ok |-> TRUE, value |-> JsonDocuments[body[1]]]
        ELSE IF body \in DOMAIN SplitDocuments
        THEN [ok |-> TRUE, value |-> SplitDocuments[body]]
        ELSE [ok |-> FALSE, value |-> Undef]

ErrorBody(message) == Obj([error |-> Str(message)])

\* Mutant: the handler without its guard on the body
GeminiEndpoint_noGuard(user_data, noData, gemini_response, parseFailed) ==
    IF gemini_response.kind \in {"noKey", "unavailable"}
    THEN [status |-> 500, body |-> ErrorBody("Gemini API error")]
    ELSE LET parsed == jsonLoads(cleaned_text(gemini_response.text))
         IN  IF parsed.ok THEN [status |-> 200, body |-> parsed.value]
             ELSE [status |-> 500, body |-> ErrorBody(parseFailed)]

\* The part the two endpoints share: the 400 guard, call_gemini_api, the
\* extraction of the text, the parse and the except clause.  Candidates
\* that are null raise TypeError and a text that is not a string raises
\* AttributeError; the except clause names neither, so the framework
\* answers 500 with its own page.
GeminiEndpoint(user_data, noData, gemini_response, parseFailed) ==
    IF NoData(user_data) THEN [status |-> 400, body |-> ErrorBody(noData)]
    ELSE IF gemini_response.kind \in {"noKey", "unavailable"}
    THEN [status |-> 500, body |-> ErrorBody("Gemini API error")]
    ELSE IF gemini_response.kind \in {"noCandidates", "emptyCandidates"}
    THEN [status |-> 500, body |-> ErrorBody(parseFailed)]
    ELSE IF gemini_response.kind \in {"nullCandidates", "nonStringText"}
    THEN [status |-> 500, body |-> Undef]
    ELSE LET parsed == jsonLoads(cleaned_text(gemini_response.text))
         IN  IF parsed.ok THEN [status |-> 200, body |-> parsed.value]
             ELSE [status |-> 500, body |-> ErrorBody(parseFailed)]

\* what the handler got from call_gemini_api for a request
GeminiOutcomes(user_data, texts) ==
    IF NoData(user_data) THEN {NotCalled} ELSE GeminiResponses(texts)

\* POST /api/calculate-score-gemini
calculate_score_with_gemini(user_data, gemini_response) ==
    GeminiEndpoint(user_data, "No data provided", gemini_response,
                   "Failed to parse the score from AI response.")

\* POST /api/ai-insights-gemini
get_ai_insights_from_gemini(user_data, gemini_response) ==
    GeminiEndpoint(user_data, "No user data provided", gemini_response,
                   "Failed to parse insights from AI response.")

\* part_001, after fetch resolved: response.ok, and for the score request a
\* body that is not null and has no truthy error field
ResponseOk(resp) == resp.status = 200
ScoreAccepted(resp) ==
    /\ ResponseOk(resp)
    /\ resp.body # Null
    /\ ~TruthyValue(Prop(resp.body, "error"))

----------------------------------------------------------------------------
(* Initial state: after construction of AppProvider, before its effect.    *)

NoResponse == [status |-> 0, body |-> Undef]
NoRequest == [active |-> FALSE, body |-> <<>>, resp |-> NoResponse, gemini |-> NotCalled]
NoWrite == [step |-> "none", data |-> Obj(EmptyProps), payload |-> <<>>]

\* AIDashboard of part_001 as it mounts: useState(null), useState(true)
DashMounted ==
    /\ insights = Null
    /\ isLoadingInsights = TRUE
    /\ insightsReq = NoRequest

NoSend == [count |-> 0, input |-> <<>>, thinking |-> FALSE]

\* YecsCopilot of app.js as it mounts
ChatMounted ==
    /\ isOpen = FALSE
    /\ messages = <<Message("ai", Greeting)>>
    /\ input = <<>>
    /\ isThinking = FALSE
    /\ chatReqs = <<>>
    /\ sends = NoSend

Init ==
    /\ variant \in {"heuristic", "gateway"}
    /\ configured \in BOOLEAN
    /\ stored \in (IF configured THEN StoredDocs ELSE {NoDoc})
    /\ boot = "start"
    /\ page = "register"
    /\ loading = TRUE
    /\ error = NoError
    /\ userId = NoUser
    /\ formData = InitialFormData(variant)
    /\ score = Null
    /\ scoreData = Null
    /\ localData = Obj(EmptyProps)
    /\ files = <<>>
    /\ isCalculating = FALSE
    /\ scoreReq = NoRequest
    /\ writes = <<>>
    /\ lastWrite = NoWrite
    /\ jitter = 0
    /\ alerted = FALSE
    /\ merge0 = <<>>
    /\ merged = <<>>
    /\ DashMounted
    /\ ChatMounted

----------------------------------------------------------------------------
(* The auth effect of AppProvider (both variants).                         *)

\* if (!auth) { setError(...); setLoading(false); return; }
AuthNotConfigured ==
    /\ boot = "start"
    /\ ~configured
    /\ error' = NotConfiguredMsg
    /\ loading' = FALSE
    /\ boot' = "done"
    /\ UNCHANGED <<chatVars, dashVars, merge0, merged, variant, configured, page, userId, formData, score, scoreData,
                   localData, files, isCalculating, scoreReq, stored, writes,
                   lastWrite, jitter, alerted>>

\* onAuthStateChanged(null): sign in with the custom token when one is
\* injected, anonymously otherwise
AuthStateNoUser ==
    /\ boot = "start"
    /\ configured
    /\ \E token \in BOOLEAN : boot' = IF token THEN "signInToken" ELSE "signInAnon"
    /\ UNCHANGED <<chatVars, dashVars, merge0, merged, variant, configured, page, loading, error, userId, formData,
                   score, scoreData, localData, files, isCalculating, scoreReq,
                   stored, writes, lastWrite, jitter, alerted>>

\* Mutant: the catch block of the sign-in sets the error and leaves the
\* loading flag set
SignInFailed_stillLoading ==
    /\ boot \in {"signInToken", "signInAnon"}
    /\ error' = IF boot = "signInToken" THEN TokenFailedMsg ELSE AnonFailedMsg
    /\ boot' = "done"
    /\ UNCHANGED <<chatVars, dashVars, merge0, merged, variant, configured, page, loading, userId,
                   formData, score, scoreData, localData, files, isCalculating, scoreReq,
                   stored, writes, lastWrite, jitter, alerted>>

\* the sign-in promise rejects
SignInFailed ==
    /\ boot \in {"signInToken", "signInAnon"}
    /\ error' = IF boot = "signInToken" THEN TokenFailedMsg ELSE AnonFailedMsg
    /\ loading' = FALSE
    /\ boot' = "done"
    /\ UNCHANGED <<chatVars, dashVars, merge0, merged, variant, configured, page, userId, formData, score, scoreData,
                   localData, files, isCalculating, scoreReq, stored, writes,
                   lastWrite, jitter, alerted>>

\* Mutant: the loading flag is cleared as soon as the user is known, before
\* getDoc is awaited
AuthStateUser_clearsLoading ==
    /\ boot \in {"start", "signInToken", "signInAnon"}
    /\ configured
    /\ userId' = Uid
    /\ loading' = FALSE
    /\ boot' = "reading"
    /\ UNCHANGED <<chatVars, dashVars, merge0, merged, variant, configured, page, error, formData,
                   score, scoreData, localData, files, isCalculating, scoreReq, stored,
                   writes, lastWrite, jitter, alerted>>

\* onAuthStateChanged(currentUser): setUserId(uid), then getDoc is awaited
AuthStateUser ==
    /\ boot \in {"start", "signInToken", "signInAnon"}
    /\ configured
    /\ userId' = Uid
    /\ boot' = "reading"
    /\ UNCHANGED <<chatVars, dashVars, merge0, merged, variant, configured, page, loading, error, formData, score,
                   scoreData, localData, files, isCalculating, scoreReq, stored,
                   writes, lastWrite, jitter, alerted>>

\* getDoc resolves: the stored sections replace those of formData;
\* RegistrationPage then mounts with useState(formData.personal)
GetDocResolved ==
    /\ boot = "reading"
    /\ formData' = IF stored.exists THEN restoreFormData(formData, stored.data) ELSE formData
    /\ loading' = FALSE
    /\ boot' = "done"
    /\ localData' = Section(formData', "personal")
    /\ UNCHANGED <<chatVars, dashVars, merge0, merged, variant, configured, page, error, userId, score, scoreData,
                   files, isCalculating, scoreReq, stored, writes, lastWrite,
                   jitter, alerted>>

\* getDoc rejects
GetDocRejected ==
    /\ boot = "reading"
    /\ error' = ReadFailedMsg
    /\ loading' = FALSE
    /\ boot' = "done"
    /\ UNCHANGED <<chatVars, dashVars, merge0, merged, variant, configured, page, userId, formData, score, scoreData,
                   localData, files, isCalculating, scoreReq, stored, writes,
                   lastWrite, jitter, alerted>>

----------------------------------------------------------------------------
(* The form pages.                                                         *)

\* app.js handleChange of the three pages, part_001 handleChange of
\* RegistrationPage and BusinessProfilePage: { ...localData, [name]: value }
HandleChange ==
    /\ PageShown
    /\ page \in {"register", "business", "financials"}
    /\ ~(variant = "gateway" /\ page = "financials")
    /\ \E in \in Inputs(page) : localData' = With(localData, in[1], Str(in[2]))
    /\ UNCHANGED <<chatVars, dashVars, merge0, merged, variant, configured, boot, page, loading, error, userId,
                   formData, score, scoreData, files, isCalculating, scoreReq,
                   stored, writes, lastWrite, jitter, alerted>>

\* part_001 FinancialDataPage.handleChange:
\* { ...prev, [name]: value ? parseFloat(value) : '' }
HandleChangeNumber ==
    /\ PageShown
    /\ variant = "gateway"
    /\ page = "financials"
    /\ \E in \in Inputs(page) :
            localData' = With(localData, in[1],
                              IF Truthy(Str(in[2])) THEN ParseFloat(in[2]) ELSE Str(""))
    /\ UNCHANGED <<chatVars, dashVars, merge0, merged, variant, configured, boot, page, loading, error, userId,
                   formData, score, scoreData, files, isCalculating, scoreReq,
                   stored, writes, lastWrite, jitter, alerted>>

\* app.js handleFileChange: setFiles([...files, ...e.target.files])
HandleFileChange ==
    /\ PageShown
    /\ variant = "heuristic"
    /\ page = "financials"
    /\ \E pick \in FilePicks :
            /\ Len(files) + Len(pick) <= MaxFiles
            /\ files' = files \o pick
    /\ UNCHANGED <<chatVars, dashVars, merge0, merged, variant, configured, boot, page, loading, error, userId,
                   formData, score, scoreData, localData, isCalculating, scoreReq,
                   stored, writes, lastWrite, jitter, alerted>>

\* app.js saveToFirestore, called in the handler that has just queued the
\* state update: the document passed to setDoc is the formData of the render
\* the handler was created in.
SavePayload(rendered, updated) == rendered

\* if (userId) { await setDoc(doc(...), formData, { merge: true }) }
saveToFirestore(step, data, rendered, updated) ==
    IF userId # NoUser
    THEN /\ writes' = Append(writes, SavePayload(rendered, updated))
         /\ lastWrite' = [step |-> step, data |-> data,
                          payload |-> SavePayload(rendered, updated)]
    ELSE UNCHANGED <<writes, lastWrite>>

\* setDoc(..., { merge: true }): maps are merged field by field, any other
\* value (an array) replaces the stored one
StoreMerge(old, payload) ==
    Doc([s \in DOMAIN old.data \cup DOMAIN payload |->
            IF s \notin DOMAIN payload THEN old.data[s]
            ELSE IF s \in DOMAIN old.data /\ ~old.data[s].isArray /\ ~payload[s].isArray
                 THEN Spread(old.data[s], payload[s])
                 ELSE payload[s]])

\* the setDoc promise resolves
SaveResolved ==
    /\ writes # <<>>
    /\ stored' = StoreMerge(stored, Head(writes))
    /\ writes' = Tail(writes)
    /\ UNCHANGED <<chatVars, dashVars, merge0, merged, variant, configured, boot, page, loading, error, userId,
                   formData, score, scoreData, localData, files, isCalculating,
                   scoreReq, lastWrite, jitter, alerted>>

\* the setDoc promise rejects: setError("Failed to save data.")
SaveRejected ==
    /\ writes # <<>>
    /\ error' = SaveFailedMsg
    /\ writes' = Tail(writes)
    /\ UNCHANGED <<chatVars, dashVars, merge0, merged, variant, configured, boot, page, loading, userId, formData,
                   score, scoreData, localData, files, isCalculating, scoreReq,
                   stored, lastWrite, jitter, alerted>>

\* Mutant: the registration step jumps over the business step
RegistrationSubmit_skip ==
    /\ PageShown
    /\ variant = "heuristic"
    /\ page = "register"
    /\ Required(localData, PersonalKeys)
    /\ formData' = updateFormData(formData, "personal", localData)
    /\ saveToFirestore("personal", localData, formData, formData')
    /\ page' = "financials"
    /\ localData' = Section(formData', "financials")
    /\ UNCHANGED <<chatVars, dashVars, merge0, merged, variant, configured, boot, loading, error, userId, score,
                   scoreData, files, isCalculating, scoreReq, stored, jitter, alerted>>

\* app.js RegistrationPage.handleSubmit
RegistrationSubmit ==
    /\ PageShown
    /\ variant = "heuristic"
    /\ page = "register"
    /\ Required(localData, PersonalKeys)
    /\ formData' = updateFormData(formData, "personal", localData)
    /\ saveToFirestore("personal", localData, formData, formData')
    /\ page' = "business"
    /\ localData' = Section(formData', "business")
    /\ UNCHANGED <<chatVars, dashVars, merge0, merged, variant, configured, boot, loading, error, userId, score,
                   scoreData, files, isCalculating, scoreReq, stored, jitter, alerted>>

\* app.js BusinessProfilePage.handleSubmit
BusinessSubmit ==
    /\ PageShown
    /\ variant = "heuristic"
    /\ page = "business"
    /\ Required(localData, BusinessKeys)
    /\ formData' = updateFormData(formData, "business", localData)
    /\ saveToFirestore("business", localData, formData, formData')
    /\ page' = "financials"
    /\ localData' = Section(formData', "financials")
    /\ files' = <<>>
    /\ UNCHANGED <<chatVars, dashVars, merge0, merged, variant, configured, boot, loading, error, userId, score,
                   scoreData, isCalculating, scoreReq, stored, jitter, alerted>>

\* app.js FinancialDataPage.handleSubmit, with calculateScore: what the
\* handler does once it is called
FinancialHandleSubmit ==
    /\ variant = "heuristic"
    /\ page = "financials"
    /\ formData' = updateFormData(updateFormData(formData, "financials", localData),
                                  "documents", Descriptors(files))
    /\ saveToFirestore("financials", localData, formData, formData')
    /\ \E j \in JitterDraws :
            /\ jitter' = j
            /\ score' = calculateScore(formData, localData, j)
    /\ page' = "score"
    /\ UNCHANGED <<chatVars, dashVars, merge0, merged, variant, configured, boot, loading, error, userId, scoreData,
                   localData, files, isCalculating, scoreReq, stored, alerted>>

\* the form of FinancialDataPage is submitted: the browser calls
\* handleSubmit once every required field is filled
FinancialSubmit ==
    /\ PageShown
    /\ Required(localData, FinancialKeys)
    /\ FinancialHandleSubmit

\* part_001 AIDashboard.fetchInsights: JSON.stringify({ ...formData, ...scoreData })
InsightsBody(fd, sd) ==
    [k \in DOMAIN fd \cup (IF IsObject(sd) THEN Keys(sd) ELSE {}) |->
        IF IsObject(sd) /\ k \in Keys(sd) THEN sd.props[k] ELSE fd[k]]

\* part_001 AIDashboard mounts and its effect runs:
\* if (formData && scoreData) { fetchInsights(); }
MountDashboard_noFetch ==
    IF variant = "gateway"
    THEN /\ insights' = Null
         /\ isLoadingInsights' = TRUE
         /\ insightsReq' = NoRequest
    ELSE UNCHANGED dashVars
MountDashboard ==
    IF variant = "gateway"
    THEN /\ insights' = Null
         /\ isLoadingInsights' = TRUE
         /\ insightsReq' = IF TruthyValue(scoreData)
                           THEN [active |-> TRUE, body |-> InsightsBody(formData, scoreData),
                                 resp |-> NoResponse, gemini |-> NotCalled]
                           ELSE NoRequest
    ELSE UNCHANGED dashVars

\* ScorePage: onClick={() => setPage('dashboard')} (both variants; part_001
\* renders the button only when scoreData is truthy), then AIDashboard mounts
ScoreContinue ==
    /\ PageShown
    /\ page = "score"
    /\ variant = "gateway" => TruthyValue(scoreData)
    /\ page' = "dashboard"
    /\ MountDashboard
    /\ UNCHANGED <<chatVars, merge0, merged, variant, configured, boot, loading, error, userId, formData,
                   score, scoreData, localData, files, isCalculating, scoreReq,
                   stored, writes, lastWrite, jitter, alerted>>

----------------------------------------------------------------------------
(* part_001: the pages of the model-backed variant.                        *)

\* part_001 RegistrationPage.handleSubmit
GatewayRegistrationSubmit ==
    /\ PageShown
    /\ variant = "gateway"
    /\ page = "register"
    /\ Required(localData, PersonalKeys)
    /\ formData' = setSection(formData, "personal", localData)
    /\ page' = "business"
    /\ localData' = Section(formData', "business")
    /\ UNCHANGED <<chatVars, dashVars, merge0, merged, variant, configured, boot, loading, error, userId, score,
                   scoreData, files, isCalculating, scoreReq, stored, writes,
                   lastWrite, jitter, alerted>>

\* part_001 BusinessProfilePage.handleSubmit
GatewayBusinessSubmit ==
    /\ PageShown
    /\ variant = "gateway"
    /\ page = "business"
    /\ Required(localData, BusinessKeys)
    /\ formData' = setSection(formData, "business", localData)
    /\ page' = "financials"
    /\ localData' = Section(formData', "financials")
    /\ UNCHANGED <<chatVars, dashVars, merge0, merged, variant, configured, boot, loading, error, userId, score,
                   scoreData, files, isCalculating, scoreReq, stored, writes,
                   lastWrite, jitter, alerted>>

\* part_001 FinancialDataPage.handleSubmit up to the await: the button is
\* disabled while isCalculating
GatewayFinancialSubmit ==
    /\ PageShown
    /\ variant = "gateway"
    /\ page = "financials"
    /\ ~isCalculating
    /\ Required(localData, FinancialKeys)
    /\ isCalculating' = TRUE
    /\ formData' = setSection(formData, "financials", localData)
    /\ scoreReq' = [active |-> TRUE, body |-> formData', resp |-> NoResponse,
                     gemini |-> NotCalled]
    /\ alerted' = FALSE
    /\ UNCHANGED <<chatVars, dashVars, merge0, merged, variant, configured, boot, page, loading, error, userId, score,
                   scoreData, localData, files, stored, writes, lastWrite, jitter>>

\* the backend handles the score request
CalculateScore ==
    /\ scoreReq.active
    /\ scoreReq.resp = NoResponse
    /\ \E gemini_response \in GeminiOutcomes(scoreReq.body, ScoreTexts) :
            scoreReq' = [scoreReq EXCEPT
                            !.resp = calculate_score_with_gemini(scoreReq.body, gemini_response),
                            !.gemini = gemini_response]
    /\ UNCHANGED <<chatVars, dashVars, merge0, merged, variant, configured, boot, page,
                   loading, error, userId, formData, score, scoreData, localData, files,
                   isCalculating, stored, writes, lastWrite, jitter, alerted>>

\* The score objects the frontend can be answered with
ScoreResults ==
    {resp.body : resp \in {r \in {calculate_score_with_gemini(InitialFormDataGateway, g) :
                                    g \in GeminiResponses(ScoreTexts)} : ScoreAccepted(r)}}

\* the fetch resolves with a 2xx status and a body without an error field:
\* setScoreData(result); setPage('score'); finally setIsCalculating(false);
\* FinancialDataPage unmounts, and its localData with it
ScoreResponseOk ==
    /\ scoreReq.active
    /\ scoreReq.resp # NoResponse
    /\ ScoreAccepted(scoreReq.resp)
    /\ scoreData' = scoreReq.resp.body
    /\ page' = "score"
    /\ localData' = Obj(EmptyProps)
    /\ isCalculating' = FALSE
    /\ scoreReq' = NoRequest
    /\ UNCHANGED <<chatVars, dashVars, merge0, merged, variant, configured, boot, loading, error, userId, formData,
                   score, files, stored, writes, lastWrite, jitter, alerted>>

\* Mutant: a failed score request moves on to the score page
ScoreResponseFailed_advance ==
    /\ scoreReq.active
    /\ \E rejected \in BOOLEAN :
            rejected \/ (scoreReq.resp # NoResponse /\ ~ScoreAccepted(scoreReq.resp))
    /\ alerted' = TRUE
    /\ page' = "score"
    /\ isCalculating' = FALSE
    /\ scoreReq' = NoRequest
    /\ UNCHANGED <<chatVars, dashVars, merge0, merged, variant, configured, boot, loading, error, userId,
                   formData, score, scoreData, localData, files, stored, writes,
                   lastWrite, jitter>>

\* Mutant: a failed score request leaves the calculating flag set
ScoreResponseFailed_stuck ==
    /\ scoreReq.active
    /\ \E rejected \in BOOLEAN :
            rejected \/ (scoreReq.resp # NoResponse /\ ~ScoreAccepted(scoreReq.resp))
    /\ alerted' = TRUE
    /\ scoreReq' = NoRequest
    /\ UNCHANGED <<chatVars, dashVars, merge0, merged, variant, configured, boot, page, loading, error, userId,
                   formData, score, scoreData, localData, files, stored, writes,
                   lastWrite, jitter, isCalculating>>

\* the fetch rejects, answers a non-2xx status, a null body or a body with
\* an error field: alert(...); finally setIsCalculating(false)
ScoreResponseFailed ==
    /\ scoreReq.active
    /\ \E rejected \in BOOLEAN :
            rejected \/ (scoreReq.resp # NoResponse /\ ~ScoreAccepted(scoreReq.resp))
    /\ alerted' = TRUE
    /\ isCalculating' = FALSE
    /\ scoreReq' = NoRequest
    /\ UNCHANGED <<chatVars, dashVars, merge0, merged, variant, configured, boot, page, loading, error, userId,
                   formData, score, scoreData, localData, files, stored, writes,
                   lastWrite, jitter>>

\* the backend handles the insights request
GetInsights ==
    /\ insightsReq.active
    /\ insightsReq.resp = NoResponse
    /\ \E gemini_response \in GeminiOutcomes(insightsReq.body, InsightsTexts) :
            insightsReq' = [insightsReq EXCEPT
                !.resp = get_ai_insights_from_gemini(insightsReq.body, gemini_response),
                !.gemini = gemini_response]
    /\ UNCHANGED <<formVars, chatVars, insights, isLoadingInsights>>

\* Mutant: the insights answer is stored as the score result
InsightsResponseOk_asScore ==
    /\ insightsReq.active
    /\ insightsReq.resp # NoResponse
    /\ ResponseOk(insightsReq.resp)
    /\ scoreData' = insightsReq.resp.body
    /\ isLoadingInsights' = FALSE
    /\ insightsReq' = NoRequest
    /\ UNCHANGED <<chatVars, insights, merge0, merged, variant, configured, boot, page,
                   loading, error, userId, formData, score, localData, files,
                   isCalculating, scoreReq, stored, writes, lastWrite, jitter, alerted>>

\* fetchInsights: the fetch resolves with a 2xx status:
\* setInsights(result); finally setIsLoadingInsights(false)
InsightsResponseOk ==
    /\ insightsReq.active
    /\ insightsReq.resp # NoResponse
    /\ ResponseOk(insightsReq.resp)
    /\ insights' = insightsReq.resp.body
    /\ isLoadingInsights' = FALSE
    /\ insightsReq' = NoRequest
    /\ UNCHANGED <<formVars, chatVars>>

\* fetchInsights: the fetch rejects or answers a non-2xx status:
\* console.error(err); finally setIsLoadingInsights(false)
InsightsResponseFailed ==
    /\ insightsReq.active
    /\ \E rejected \in BOOLEAN :
            rejected \/ (insightsReq.resp # NoResponse /\ ~ResponseOk(insightsReq.resp))
    /\ isLoadingInsights' = FALSE
    /\ insightsReq' = NoRequest
    /\ UNCHANGED <<formVars, chatVars, insights>>

\* x.map(...) of the render: x must be an array
IsArray(v) == IsObject(v) /\ v.isArray

\* What AIDashboard of part_001 renders
DashboardView ==
    IF isLoadingInsights \/ ~TruthyValue(insights) THEN "Generating AI Insights..."
    ELSE IF /\ IsArray(Prop(insights, "loanRecommendations"))
            /\ IsArray(Prop(insights, "creditImprovements"))
         THEN "content"
         ELSE "TypeError"

\* What MainContent of part_001 renders
GatewayScreen ==
    IF loading THEN "INITIALIZING YECS..."
    ELSE IF error # NoError THEN "ErrorDisplay"
    ELSE IF page = "score" /\ ~TruthyValue(scoreData) THEN "Finalizing your score..."
    ELSE IF page = "dashboard" THEN DashboardView
    ELSE page

----------------------------------------------------------------------------

Next ==
    \/ AuthNotConfigured
    \/ AuthStateNoUser
    \/ SignInFailed
    \/ AuthStateUser
    \/ GetDocResolved
    \/ GetDocRejected
    \/ HandleChange
    \/ HandleChangeNumber
    \/ HandleFileChange
    \/ SaveResolved
    \/ SaveRejected
    \/ RegistrationSubmit
    \/ BusinessSubmit
    \/ FinancialSubmit
    \/ ScoreContinue
    \/ GatewayRegistrationSubmit
    \/ GatewayBusinessSubmit
    \/ GatewayFinancialSubmit
    \/ CalculateScore
    \/ ScoreResponseOk
    \/ ScoreResponseFailed
    \/ GetInsights
    \/ InsightsResponseOk
    \/ InsightsResponseFailed

Spec == Init /\ [][Next]_vars

\* The auth effect runs once the provider has mounted, the identity service
\* reports the initial auth state, and each awaited promise (sign-in, getDoc)
\* settles: a bootstrap step that stays possible is eventually taken.
Bootstrap ==
    \/ AuthNotConfigured
    \/ AuthStateNoUser
    \/ SignInFailed
    \/ AuthStateUser
    \/ GetDocResolved
    \/ GetDocRejected

SpecBoot == Init /\ [][Next]_vars /\ WF_vars(Bootstrap)

----------------------------------------------------------------------------
(* The heuristic scorer on its own: handleSubmit of FinancialDataPage      *)
(* called on any profile and any localData, the fields absent, empty,      *)
(* strings or numbers.                                                     *)

Absent == [t |-> "absent", s |-> "", n |-> 0]

\* the object holding the fields of f that are not Absent
Partial(f) == Obj([k \in {x \in DOMAIN f : f[x] # Absent} |-> f[k]])

RevenueValues == {Absent, Str(""), Str("50000"), Str("50001"), Num(60000)}
ExperienceValues == {Absent, Str(""), Str("2"), Num(3)}
StageValues == {Absent, Str(""), Str("Idea Stage"), Str("MVP Ready"),
                Str("Early Customers"), Str("Revenue Generating")}
IncomeValues == {Absent, Str(""), Str("3500"), Str("3501"), Num(4000)}
ExpenseValues == {Absent, Str(""), Str("0"), Num(0), Str("3000")}
SavingsValues == {Absent, Str(""), Str("9000"), Str("9001"), Num(10000)}

ScoreBusiness ==
    {Partial([revenueProjection |-> r, yearsExperience |-> y, businessStage |-> g]) :
        r \in RevenueValues, y \in ExperienceValues, g \in StageValues}

\* the financials already in the profile, which localData is spread over
ScoreStoredFinancials ==
    {Blank(FinancialKeys),
     Obj([k \in {"monthlyIncome", "savingsAmount"} |->
            IF k = "monthlyIncome" THEN Num(4000) ELSE Str("10000")])}

ScoreLocalData ==
    {Partial([monthlyIncome |-> i, monthlyExpenses |-> e, savingsAmount |-> a]) :
        i \in IncomeValues, e \in ExpenseValues, a \in SavingsValues}

ScoreInit ==
    /\ variant = "heuristic"
    /\ configured = TRUE
    /\ stored = NoDoc
    /\ boot = "done"
    /\ page = "financials"
    /\ loading = FALSE
    /\ error = NoError
    /\ userId = Uid
    /\ \E b \in ScoreBusiness, f \in ScoreStoredFinancials :
            formData = [InitialFormDataHeuristic EXCEPT !["business"] = b,
                                                        !["financials"] = f]
    /\ localData \in ScoreLocalData
    /\ score = Null
    /\ scoreData = Null
    /\ files = <<>>
    /\ isCalculating = FALSE
    /\ scoreReq = NoRequest
    /\ writes = <<>>
    /\ lastWrite = NoWrite
    /\ jitter = 0
    /\ alerted = FALSE
    /\ merge0 = <<>>
    /\ merged = <<>>
    /\ DashMounted
    /\ ChatMounted

ScoreNext == FinancialHandleSubmit

SpecScore == ScoreInit /\ [][ScoreNext]_vars

----------------------------------------------------------------------------
(* updateFormData on its own: a run of merges into a profile.              *)

MaxMerges == 2

MergeValues == {Absent, Str("a"), Str("b")}

MergeData(section) ==
    IF section = "personal"
    THEN {Partial([firstName |-> x, age |-> y]) : x \in MergeValues, y \in MergeValues}
    ELSE {Partial([industry |-> x, businessStage |-> y]) : x \in MergeValues, y \in MergeValues}

MergeSections == {"personal", "business"}

MergeInit ==
    /\ variant = "heuristic"
    /\ configured = TRUE
    /\ stored = NoDoc
    /\ boot = "done"
    /\ page = "register"
    /\ loading = FALSE
    /\ error = NoError
    /\ userId = Uid
    /\ \E p \in {Partial([firstName |-> x, lastName |-> y]) :
                    x \in {Absent, Str("")}, y \in {Absent, Str("z")}} :
            formData = [InitialFormDataHeuristic EXCEPT !["personal"] = p]
    /\ localData = Obj(EmptyProps)
    /\ score = Null
    /\ scoreData = Null
    /\ files = <<>>
    /\ isCalculating = FALSE
    /\ scoreReq = NoRequest
    /\ writes = <<>>
    /\ lastWrite = NoWrite
    /\ jitter = 0
    /\ alerted = FALSE
    /\ merge0 = formData
    /\ merged = <<>>
    /\ DashMounted
    /\ ChatMounted

\* one call updateFormData(section, data)
MergeSection ==
    /\ Len(merged) < MaxMerges
    /\ \E section \in MergeSections : \E data \in MergeData(section) :
            /\ formData' = updateFormData(formData, section, data)
            /\ merged' = Append(merged, [section |-> section, data |-> data])
    /\ UNCHANGED <<chatVars, dashVars, variant, configured, boot, page, loading, error,
                   userId, score, scoreData, localData, files, isCalculating, scoreReq,
                   stored, writes, lastWrite, jitter, alerted, merge0>>

MergeNext == MergeSection

SpecMerge == MergeInit /\ [][MergeNext]_vars

----------------------------------------------------------------------------
(* The chat of the dashboard of app.js, on a dashboard that is shown.      *)

MaxSends == 3

\* a profile and a score with which the dashboard of app.js is reached
ChatFormData ==
    [InitialFormDataHeuristic EXCEPT
        !["business"] = Obj([businessStage |-> Str("MVP Ready"), industry |-> Str("Tech")]),
        !["financials"] = Obj([monthlyIncome |-> Str("4000"), monthlyExpenses |-> Str("3000"),
                               savingsAmount |-> Str("10000"), debtAmount |-> Str("0")])]

ChatInit ==
    /\ variant = "heuristic"
    /\ configured = TRUE
    /\ stored = NoDoc
    /\ boot = "done"
    /\ page = "dashboard"
    /\ loading = FALSE
    /\ error = NoError
    /\ userId = Uid
    /\ formData = ChatFormData
    /\ localData = Section(formData, "financials")
    /\ \E j \in JitterDraws :
            /\ jitter = j
            /\ score = calculateScore(formData, localData, j)
    /\ scoreData = Null
    /\ files = <<>>
    /\ isCalculating = FALSE
    /\ scoreReq = NoRequest
    /\ writes = <<>>
    /\ lastWrite = NoWrite
    /\ alerted = FALSE
    /\ merge0 = <<>>
    /\ merged = <<>>
    /\ DashMounted
    /\ ChatMounted

ChatShown == PageShown /\ variant = "heuristic" /\ page = "dashboard"

\* onClick={() => setIsOpen(true)} and onClick={() => setIsOpen(false)}
ChatToggle ==
    /\ ChatShown
    /\ isOpen' = ~isOpen
    /\ UNCHANGED <<formVars, dashVars, messages, input, isThinking, chatReqs, sends>>

\* onChange={(e) => setInput(e.target.value)}
ChatSetInput ==
    /\ ChatShown
    /\ isOpen
    /\ \E text \in ChatInputs : input' = text
    /\ UNCHANGED <<formVars, dashVars, isOpen, messages, isThinking, chatReqs, sends>>

\* handleSend, called by the Enter key, or by the send button unless it is
\* disabled: up to the await of fetch
ChatHandleSend ==
    /\ ChatShown
    /\ isOpen
    /\ sends.count < MaxSends
    /\ \E byButton \in BOOLEAN :
            /\ byButton => ~isThinking
            /\ sends' = [count |-> sends.count + 1, input |-> input, thinking |-> isThinking]
            /\ IF SendRejected(input, isThinking)
               THEN UNCHANGED <<messages, input, isThinking, chatReqs>>
               ELSE /\ messages' = AppendMessage(messages, Message("user", input))
                    /\ input' = <<>>
                    /\ isThinking' = TRUE
                    /\ chatReqs' = Append(chatReqs,
                            [question |-> input,
                             userData |-> userDataForDashboard(formData, score),
                             outcome |-> NoOutcome])
    /\ UNCHANGED <<formVars, dashVars, isOpen>>

\* the external model answers a chat request, or the fetch fails
ChatAnswered ==
    /\ \E i \in 1..Len(chatReqs) : \E outcome \in ChatOutcomes :
            /\ chatReqs[i].outcome = NoOutcome
            /\ chatReqs' = [chatReqs EXCEPT ![i].outcome = outcome]
    /\ UNCHANGED <<formVars, dashVars, isOpen, messages, input, isThinking, sends>>

\* handleSend after the await: setIsThinking(false); setMessages([...prev, ai])
ChatSettled ==
    /\ ChatShown
    /\ \E i \in 1..Len(chatReqs) :
            /\ chatReqs[i].outcome # NoOutcome
            /\ chatReqs' = SubSeq(chatReqs, 1, i - 1) \o SubSeq(chatReqs, i + 1, Len(chatReqs))
            /\ isThinking' = FALSE
            /\ messages' = AppendMessage(messages,
                                Message("ai", aiResponseText(chatReqs[i].outcome)))
    /\ UNCHANGED <<formVars, dashVars, isOpen, input, sends>>

ChatNext ==
    \/ ChatToggle
    \/ ChatSetInput
    \/ ChatHandleSend
    \/ ChatAnswered
    \/ ChatSettled

SpecChat == ChatInit /\ [][ChatNext]_vars

----------------------------------------------------------------------------
(* The backend on its own: any client can post to the two endpoints.       *)

\* The bodies a client can post: none, the empty object, a profile
BackendBodies == {MissingBody, EmptyProps, InitialFormDataGateway, ChatFormData}

BackendRequests ==
    {[active |-> TRUE, body |-> b, resp |-> NoResponse, gemini |-> NotCalled] :
        b \in BackendBodies}

BackendInit ==
    /\ variant = "gateway"
    /\ configured = FALSE
    /\ stored = NoDoc
    /\ boot = "start"
    /\ page = "register"
    /\ loading = TRUE
    /\ error = NoError
    /\ userId = NoUser
    /\ formData = InitialFormDataGateway
    /\ score = Null
    /\ scoreData = Null
    /\ localData = Obj(EmptyProps)
    /\ files = <<>>
    /\ isCalculating = FALSE
    /\ scoreReq \in BackendRequests
    /\ writes = <<>>
    /\ lastWrite = NoWrite
    /\ jitter = 0
    /\ alerted = FALSE
    /\ merge0 = <<>>
    /\ merged = <<>>
    /\ insights = Null
    /\ isLoadingInsights = TRUE
    /\ insightsReq \in BackendRequests
    /\ ChatMounted

BackendNext ==
    \/ CalculateScore
    \/ GetInsights

SpecBackend == BackendInit /\ [][BackendNext]_vars

----------------------------------------------------------------------------
(* Properties.                                                             *)

\* C1: the heuristic score stored by the financials submit is an integer
\* in [300, 850], whatever the profile fields (absent, empty, strings or
\* numbers) and whatever the jitter draw.
C1_ScoreInRange ==
    score # Null => (score.t = "number" /\ score.n \in BaseScore..MaxScore)

\* C1 witness: a score has been stored for a profile with absent fields
C1_Witness ==
    /\ score # Null
    /\ "monthlyExpenses" \notin Keys(formData["financials"])
    /\ "revenueProjection" \notin Keys(formData["business"])

\* The reference of C2, on the numbers the fields denote: an absent, empty or
\* non-numeric field counts as 0.
RefValue(v) == IF ToNumber(v).t = "number" THEN ToNumber(v).n ELSE 0

\* round(j / JitterScale), halves up: the r with r - 1/2 <= j/JitterScale < r + 1/2
RefRoundedJitter(j) ==
    CHOOSE r \in 0..JitterRange :
        /\ 2 * JitterScale * r - JitterScale <= 2 * j
        /\ 2 * j < 2 * JitterScale * r + JitterScale

RefScore(fd, j) ==
    LET b == fd["business"]
        f == fd["financials"]
        income == RefValue(Get(f, "monthlyIncome"))
        expenses == RefValue(Get(f, "monthlyExpenses"))
        savings == RefValue(Get(f, "savingsAmount"))
        sum == 300
               + (IF RefValue(Get(b, "revenueProjection")) > 50000 THEN 50 ELSE 0)
               + (IF RefValue(Get(b, "yearsExperience")) > 2 THEN 40 ELSE 0)
               + (IF Get(b, "businessStage") \in
                        {Str("MVP Ready"), Str("Early Customers"), Str("Revenue Generating")}
                  THEN 35 ELSE 0)
               + (IF income - expenses > 500 THEN 60 ELSE 0)
               + (IF expenses > 0 /\ savings > 3 * expenses THEN 40 ELSE 0)
               + RefRoundedJitter(j)
    IN  IF sum < 850 THEN sum ELSE 850

\* C2: the stored heuristic score equals the reference function of the
\* profile and the jitter draw; a profile whose monthlyExpenses is 0 (or
\* absent) never receives the savings bonus.
C2_ScoreIsReference ==
    score # Null => score = Num(RefScore(formData, jitter))

\* C2 witness: a score stored for monthlyExpenses = 0 and positive savings,
\* with a jitter draw that rounds up
C2_Witness ==
    /\ score # Null
    /\ Get(formData["financials"], "monthlyExpenses") = Str("0")
    /\ Get(formData["financials"], "savingsAmount") = Num(10000)
    /\ jitter % JitterScale # 0

\* the profile of the scenario of C3
ScenarioProfile ==
    /\ ToNumber(Get(formData["business"], "revenueProjection")) = Num(60000)
    /\ ToNumber(Get(formData["business"], "yearsExperience")) = Num(3)
    /\ Get(formData["business"], "businessStage") = Str("MVP Ready")
    /\ ToNumber(Get(formData["financials"], "monthlyIncome")) = Num(4000)
    /\ ToNumber(Get(formData["financials"], "monthlyExpenses")) = Num(3000)
    /\ ToNumber(Get(formData["financials"], "savingsAmount")) = Num(10000)
    /\ ToNumber(Get(formData["financials"], "debtAmount")) = Num(0)

\* C3 as stated: for the scenario profile the heuristic score is in
\* [525, 625), at least 525 and strictly less than 625.
C3_ScenarioBelow625 ==
    (variant = "heuristic" /\ score # Null /\ ScenarioProfile)
        => (525 <= score.n /\ score.n < 625)

\* C3 amended: for the scenario profile the heuristic score is in
\* [525, 625], 625 included (a jitter of 99.5 or more rounds up to 100).
C3_ScenarioRange ==
    (variant = "heuristic" /\ score # Null /\ ScenarioProfile)
        => (525 <= score.n /\ score.n <= 625)

\* C3 witness: the scenario profile scored with the greatest jitter draw
C3_Witness ==
    /\ variant = "heuristic"
    /\ score = Num(625)
    /\ ScenarioProfile
    /\ jitter = JitterRange * JitterScale - 1

\* the sections a step submit merges into
MergedSections ==
    CASE page = "register" -> {"personal"}
      [] page = "business" -> {"business"}
      [] page = "financials" ->
            IF variant = "heuristic" THEN {"financials", "documents"} ELSE {"financials"}
      [] OTHER -> {}

\* C4: a step submit leaves every section other than the ones it merges
\* into exactly as it was, in both frontend variants.
C4_SiblingsUntouched ==
    [][PageShown =>
        \A s \in (DOMAIN formData \cup DOMAIN formData') \ MergedSections :
            /\ s \in DOMAIN formData
            /\ s \in DOMAIN formData'
            /\ formData'[s] = formData[s]]_vars

\* C4 witness: after the three submits the restored documents of the
\* gateway variant and the typed personal section are both still there
C4_Witness ==
    /\ variant = "gateway"
    /\ page = "score"
    /\ "documents" \in DOMAIN formData
    /\ Get(formData["personal"], "firstName") = Str("Grace")
    /\ Get(formData["business"], "businessStage") = Str("MVP Ready")
    /\ Get(formData["financials"], "monthlyIncome") = Num(4000)

\* the merges of the run into section s, and the latest of them supplying k
MergesInto(s) == {i \in 1..Len(merged) : merged[i].section = s}
Suppliers(s, k) == {i \in MergesInto(s) : k \in Keys(merged[i].data)}
Latest(S) == CHOOSE i \in S : \A j \in S : j <= i

\* C5: after merges into the same section, the section holds the union of
\* the keys; on every key the latest merge supplying it wins, and a key
\* supplied by no merge keeps the value it had before.
C5_MergeTwice ==
    \A s \in DOMAIN formData :
        /\ Keys(formData[s]) =
                Keys(Section(merge0, s)) \cup UNION {Keys(merged[i].data) : i \in MergesInto(s)}
        /\ \A k \in Keys(formData[s]) :
                formData[s].props[k] =
                    IF Suppliers(s, k) = {} THEN merge0[s].props[k]
                    ELSE merged[Latest(Suppliers(s, k))].data.props[k]

\* C5 witness: two merges into personal, both supplying firstName with
\* different values, only the first supplying age, neither lastName
C5_Witness ==
    /\ Len(merged) >= 2
    /\ merged[1].section = "personal"
    /\ merged[2].section = "personal"
    /\ Get(merged[1].data, "firstName") = Str("a")
    /\ Get(merged[2].data, "firstName") = Str("b")
    /\ Get(merged[1].data, "age") = Str("a")
    /\ "age" \notin Keys(merged[2].data)
    /\ Get(merge0["personal"], "lastName") = Str("z")

\* C6 as stated: in every reachable state the in-memory profile contains
\* the four sections personal, business, financials and documents.
C6_FourSections == SectionNames \subseteq DOMAIN formData

\* C7 as stated: after the financials submit the documents section is the
\* list of the descriptors of the uploaded files, in upload order.
C7_DocumentsList ==
    (variant = "heuristic" /\ page \in {"score", "dashboard"})
        => formData["documents"] = Descriptors(files)

\* C8: the workflow starts in the Personal step and every change of step
\* moves to the next step of the fixed order, in both variants.
C8_ForwardOneStep ==
    /\ page = PageOrder[1]
    /\ [][page' # page =>
            \E i \in 1..(Len(PageOrder) - 1) :
                page = PageOrder[i] /\ page' = PageOrder[i + 1]]_vars

\* C8 witness: the last step is reached
C8_Witness == page = "dashboard" /\ PageShown

\* C9 as stated: the document written to the store by a step submit
\* contains the section data submitted in that same submit.
C9_WriteHasSubmitted ==
    lastWrite.step # "none" =>
        \A k \in Keys(lastWrite.data) :
            Get(Section(lastWrite.payload, lastWrite.step), k) = lastWrite.data.props[k]

\* C10 as stated: a failed write to the store or a failed read of the
\* stored profile does not block the workflow: only an identity bootstrap
\* failure puts the session in the error display.
C10_PersistenceNeverBlocks ==
    ErrorShown => error \in {NotConfiguredMsg, TokenFailedMsg, AnonFailedMsg}

----------------------------------------------------------------------------
\* C11: whenever the current step is the score page or the dashboard, a
\* score result is held (the score of app.js, the scoreData of part_001, not
\* null and not undefined), and no score request is unsettled on these steps:
\* the score page is entered only by the handler that settles the request.
C11_ScoreBeforeResults ==
    page \in {"score", "dashboard"} =>
        /\ IF variant = "heuristic"
           THEN score \notin {Null, Undef}
           ELSE scoreData \notin {Null, Undef}
        /\ ~scoreReq.active
        /\ ~isCalculating

\* the dashboard of part_001 reached with the answer of the backend
C11_Witness ==
    /\ variant = "gateway"
    /\ page = "dashboard"
    /\ scoreData \in ScoreResults

\* C12: every score held in session state (the score of app.js, the
\* yecs_score of the scoreData of part_001) is an integer from 300 to 850.
IsScoreValue(v) == ~IsObject(v) /\ v.t = "number" /\ v.n >= 300 /\ v.n <= 850

C12_ScoreClamped ==
    /\ score # Null => IsScoreValue(score)
    /\ scoreData # Null => IsScoreValue(Prop(scoreData, "yecs_score"))

\* C13: a step that settles the score request of part_001 either is the
\* success of an accepted response, or raises the alert, leaves the page at
\* financials and the stored score result as it was, and clears the
\* calculating flag; a request that was rejected, answered with a non-2xx
\* status, a null body or an error field always settles the second way.
ScoreFailureHandled ==
    /\ alerted'
    /\ page = "financials"
    /\ page' = "financials"
    /\ scoreData' = scoreData
    /\ ~isCalculating'
    /\ PageShown'

C13_ScoreFailure ==
    [][(scoreReq.active /\ ~scoreReq'.active) =>
            IF scoreReq.resp # NoResponse /\ ScoreAccepted(scoreReq.resp)
            THEN (page' = "score" /\ scoreData' = scoreReq.resp.body) \/ ScoreFailureHandled
            ELSE ScoreFailureHandled]_vars

\* after a failed score request the financials form can be submitted again
C13_Witness ==
    /\ variant = "gateway"
    /\ page = "financials"
    /\ alerted
    /\ ~isCalculating
    /\ scoreData = Null
    /\ PageShown
    /\ Required(localData, FinancialKeys)

\* C15: in part_001, the step that enters the dashboard with a score result
\* held starts the insights request, and as long as that request is not
\* settled the screen is the insights loading screen: not the score loading
\* screen, and not the dashboard content.
C15_InsightsStartAndLoading ==
    /\ [](insightsReq.active =>
            /\ page = "dashboard"
            /\ GatewayScreen = "Generating AI Insights..."
            /\ GatewayScreen \notin {"Finalizing your score...", "content"})
    /\ [][(variant = "gateway" /\ page # "dashboard" /\ page' = "dashboard"
                /\ TruthyValue(scoreData'))
            => (insightsReq'.active /\ insightsReq'.resp = NoResponse)]_vars

\* the backend has answered the insights request with a bundle, the page
\* has not received it yet
C15_Witness ==
    /\ variant = "gateway"
    /\ page = "dashboard"
    /\ insightsReq.active
    /\ insightsReq.resp.status = 200
    /\ insights = Null

\* C16: in part_001, once the insights request of the dashboard has settled
\* the dashboard has left the loading screen and shows its content, whether
\* the request succeeded or failed.
C16_DashboardLeavesLoading ==
    (variant = "gateway" /\ page = "dashboard" /\ ~insightsReq.active)
        => GatewayScreen = "content"

\* C17: every 200 response of POST /api/ai-insights-gemini carries a
\* marketAlert, exactly 3 loanRecommendations and exactly 2 creditImprovements.
ArrayLength(v) == Cardinality(Keys(v))

IsInsightsBundle(v) ==
    /\ IsObject(v)
    /\ Prop(v, "marketAlert") # Undef
    /\ IsArray(Prop(v, "loanRecommendations"))
    /\ ArrayLength(Prop(v, "loanRecommendations")) = 3
    /\ IsArray(Prop(v, "creditImprovements"))
    /\ ArrayLength(Prop(v, "creditImprovements")) = 2

C17_InsightsBundleShape ==
    (insightsReq.active /\ insightsReq.resp # NoResponse /\ insightsReq.resp.status = 200)
        => IsInsightsBundle(insightsReq.resp.body)

\* C18: a call of handleSend with an input that is empty or consists of
\* white space only appends no message, leaves the thinking flag as it was
\* and starts no request to the external model.
BlankText(text) == \A i \in 1..Len(text) : text[i] \in {" ", "\t", "\n"}

C18_BlankSendIsNoOp ==
    [][(sends' # sends /\ BlankText(input)) =>
            /\ messages' = messages
            /\ isThinking' = isThinking
            /\ chatReqs' = chatReqs]_vars

\* handleSend was last called with white space in the field, while no
\* request was pending
C18_Witness ==
    /\ sends.count > 0
    /\ sends.input # <<>>
    /\ BlankText(sends.input)
    /\ ~sends.thinking

\* C19: at most one chat request is outstanding; a call of handleSend made
\* while a request is outstanding appends no message and starts no request,
\* and a request is only ever started by the call of handleSend itself (a
\* rejected send is not sent later).
C19_SingleOutstanding ==
    /\ [](Len(chatReqs) <= 1)
    /\ [][(sends' # sends /\ chatReqs # <<>>) =>
            (messages' = messages /\ chatReqs' = chatReqs)]_vars
    /\ [][Len(chatReqs') > Len(chatReqs) =>
            (sends' # sends /\ chatReqs' = Append(chatReqs, [question |-> input,
                    userData |-> userDataForDashboard(formData, score),
                    outcome |-> NoOutcome]))]_vars

\* handleSend was last called with a question in the field while the
\* request of an earlier send was pending, and that request still is
C19_Witness ==
    /\ sends.count >= 2
    /\ sends.thinking
    /\ ~BlankText(sends.input)
    /\ Len(chatReqs) = 1
    /\ isThinking

\* C20: the log starts with the greeting of the assistant, every step leaves
\* it as it is or appends one message to its end, and after the greeting the
\* senders alternate user, ai, user, ai.
ChatLogShape ==
    /\ Len(messages) >= 1
    /\ messages[1] = [sender |-> "ai", text |-> Greeting]
    /\ \A i \in 2..Len(messages) :
            messages[i].sender = IF i % 2 = 0 THEN "user" ELSE "ai"

C20_AppendOnly ==
    /\ [](ChatLogShape)
    /\ [][\/ messages' = messages
          \/ /\ Len(messages') = Len(messages) + 1
             /\ SubSeq(messages', 1, Len(messages)) = messages]_vars

\* two questions were asked and answered
C20_Witness ==
    /\ Len(messages) >= 5
    /\ chatReqs = <<>>
    /\ ~isThinking

\* C21: a call of handleSend with a question in the field and no request
\* pending appends the user message with that text and sets the thinking
\* flag; the step in which a request settles appends exactly one ai message
\* (the text of the model when it answered a non-empty text, one of the
\* fixed fallback texts otherwise) and clears the thinking flag; the flag is
\* set exactly while a request is outstanding, so a later send is accepted.
ExpectedReply(outcome) ==
    IF outcome.kind = "text" /\ outcome.text # <<>> THEN {outcome.text}
    ELSE {NoReplyText, TroubleText}

C21_SendSettleCycle ==
    /\ [](isThinking <=> chatReqs # <<>>)
    /\ [][(sends' # sends /\ ~BlankText(input) /\ ~isThinking) =>
            /\ messages' = messages \o <<[sender |-> "user", text |-> input]>>
            /\ isThinking'
            /\ Len(chatReqs') = Len(chatReqs) + 1]_vars
    /\ [][Len(chatReqs') < Len(chatReqs) =>
            /\ Len(chatReqs) = 1
            /\ Len(messages') = Len(messages) + 1
            /\ SubSeq(messages', 1, Len(messages)) = messages
            /\ messages'[Len(messages')].sender = "ai"
            /\ messages'[Len(messages')].text \in ExpectedReply(chatReqs[1].outcome)
            /\ ~isThinking']_vars

\* a request that failed was answered with a fallback text, and the next
\* send was accepted
C21_Witness ==
    /\ Len(messages) = 4
    /\ messages[3].text \in {NoReplyText, TroubleText}
    /\ messages[4].sender = "user"
    /\ isThinking

\* C22: a request without a body (none, or one that is empty) is answered
\* by both endpoints with status 400 and a body with an error field, and
\* call_gemini_api is not called for it.
IsErrorBody(v) == IsObject(v) /\ Keys(v) = {"error"} /\ Prop(v, "error").t = "string"

MissingBodyRefused(req) ==
    (req.resp # NoResponse /\ (req.body = MissingBody \/ req.body = EmptyProps)) =>
        /\ req.resp.status = 400
        /\ IsErrorBody(req.resp.body)
        /\ req.gemini = NotCalled

C22_MissingBody400 == MissingBodyRefused(scoreReq) /\ MissingBodyRefused(insightsReq)

\* both endpoints have answered a request without a body
C22_Witness ==
    /\ scoreReq.body = MissingBody
    /\ scoreReq.resp.status = 400
    /\ insightsReq.body = MissingBody
    /\ insightsReq.resp.status = 400

\* C23: the score endpoint, for a request with a body, answers 200 only
\* when the external model gave a text (which then parsed as JSON), and for
\* every other outcome of the model call answers 500 with a body that has
\* an error field, written by the handler itself.
C23_TypedFailure ==
    (scoreReq.resp # NoResponse /\ scoreReq.gemini # NotCalled) =>
        IF scoreReq.resp.status = 200
        THEN scoreReq.gemini.kind = "text"
        ELSE scoreReq.resp.status = 500 /\ IsErrorBody(scoreReq.resp.body)

\* C24: the markup inserted into the page for a message of the assistant
\* holds no tag other than the bold, italic and line-break tags that the
\* formatting pass writes: a tag in the text of the model is escaped.
PassTags == {"<br />", "<strong>", "</strong>", "<em>", "</em>"}
HtmlTags == PassTags \cup {"<img src=x onerror=alert(1)>"}

C24_ReplyRenderedSafely ==
    \A i \in DOMAIN messages :
        messages[i].sender = "ai" =>
            \A k \in DOMAIN Markup(messages[i].text) :
                Markup(messages[i].text)[k] \in HtmlTags =>
                    Markup(messages[i].text)[k] \in PassTags

\* C25: when the text of the model is a valid JSON object, bare or wrapped
\* in a code fence (with or without the word json), the score endpoint
\* answers 200 with a body equal to that object.
Unwrapped(text) ==
    LET t0 == strip(text)
        t1 == IF t0 # <<>> /\ Head(t0) = Fence THEN Tail(t0) ELSE t0
        t2 == IF t0 # <<>> /\ Head(t0) = Fence /\ t1 # <<>> /\ Head(t1) = "json"
              THEN Tail(t1) ELSE t1
        t3 == IF t0 # <<>> /\ Head(t0) = Fence /\ t2 # <<>> /\ t2[Len(t2)] = Fence
              THEN SubSeq(t2, 1, Len(t2) - 1) ELSE t2
    IN  t3

C25_FenceStripped ==
    (/\ scoreReq.resp # NoResponse
     /\ scoreReq.gemini.kind = "text"
     /\ jsonLoads(Unwrapped(scoreReq.gemini.text)).ok
     /\ IsObject(jsonLoads(Unwrapped(scoreReq.gemini.text)).value))
        => /\ scoreReq.resp.status = 200
           /\ scoreReq.resp.body = jsonLoads(Unwrapped(scoreReq.gemini.text)).value

AuthFailures == {NotConfiguredMsg, TokenFailedMsg, AnonFailedMsg}

\* C27: the loading screen eventually ends; once the identity service is
\* missing or a sign-in has failed the error display is shown and stays, and
\* a workflow page is shown only to a signed-in user; when the read of the
\* stored profile resolves, the personal page is shown.
C27_BootstrapEnds ==
    /\ <>(~loading)
    /\ [](error \in AuthFailures => ErrorShown)
    /\ [][(error \in AuthFailures) => (error' = error)]_vars
    /\ [](PageShown => (configured /\ userId # NoUser))
    /\ [][(boot = "reading" /\ boot' = "done" /\ error' = NoError)
            => (PageShown' /\ page' = "register")]_vars

\* a bootstrap that ended with a failed anonymous sign-in
C27_Witness ==
    /\ boot = "done"
    /\ error = AnonFailedMsg
    /\ ~loading
    /\ userId = NoUser

\* C28: while the loading flag is set nothing has been entered, submitted or
\* written and no page is shown; the flag is cleared only in the step in
\* which the read of the stored profile settles (or with an authentication
\* error, which shows no page); once it is cleared it stays cleared and the
\* bootstrap, and with it the restore, does not run again.
C28_NoSubmitBeforeRestore ==
    /\ [](loading => /\ ~PageShown
                     /\ page = "register"
                     /\ formData = InitialFormData(variant)
                     /\ localData = Obj(EmptyProps)
                     /\ writes = <<>>
                     /\ score = Null
                     /\ scoreData = Null)
    /\ [](PageShown => boot = "done")
    /\ [][(loading /\ ~loading')
            => ((boot = "reading" /\ boot' = "done") \/ error' \in AuthFailures)]_vars
    /\ [][(~loading) => (~loading' /\ boot' = boot)]_vars

\* the bootstrap has ended with the read settled and the user has since
\* submitted the personal page
C28_Witness ==
    /\ error = NoError
    /\ boot = "done"
    /\ PageShown
    /\ page = "business"
    /\ writes # <<>>

\* C29: the step that submits the financials page of app.js stores the
\* form's values over the financials held before, and the score it sets is
\* the reference score of the profile with these merged financials.
C29_ScoreUsesSubmitted ==
    [][(variant = "heuristic" /\ page = "financials" /\ page' = "score")
            => /\ Section(formData', "financials")
                    = Spread(Section(formData, "financials"), localData)
               /\ score' = Num(RefScore(formData', jitter'))]_vars

\* a score that differs from the score of the profile held before the
\* submit (the document handed to setDoc by that submit)
C29_Witness ==
    /\ variant = "heuristic"
    /\ page = "score"
    /\ lastWrite.step = "financials"
    /\ score # Null
    /\ score # Num(RefScore(lastWrite.payload, jitter))

----------------------------------------------------------------------------
(* The locally computed insights of app.js.                                *)

\* Mutant: the unconditional loan recommendation is not pushed
getAIInsights_noFallback(userData) ==
    [loanRecommendations |->
        (IF ToNumber(userData.score).t = "number" /\ ToNumber(userData.score).n >= 700
            THEN <<"SBA Microloan">> ELSE <<>>)
        \o (IF Gt(userData.cashFlow, Num(500)) THEN <<"Business Line of Credit">> ELSE <<>>),
     creditImprovements |->
        (IF userData.dti.s # "NaN" /\ userData.dti.n > 20 * 100
            THEN <<"Optimize Debt-to-Income">> ELSE <<>>)
        \o <<"Build Business Credit">>,
     marketAlert |-> IF Truthy(userData.industry) THEN userData.industry.s ELSE "your"]

\* getAIInsights: loan types and improvement titles in the order pushed;
\* dti is the toFixed(2) text, held in hundredths
getAIInsights(userData) ==
    [loanRecommendations |->
        (IF ToNumber(userData.score).t = "number" /\ ToNumber(userData.score).n >= 700
            THEN <<"SBA Microloan">> ELSE <<>>)
        \o (IF Gt(userData.cashFlow, Num(500)) THEN <<"Business Line of Credit">> ELSE <<>>)
        \o <<"Fintech Term Loan">>,
     creditImprovements |->
        (IF userData.dti.s # "NaN" /\ userData.dti.n > 20 * 100
            THEN <<"Optimize Debt-to-Income">> ELSE <<>>)
        \o <<"Build Business Credit">>,
     marketAlert |-> IF Truthy(userData.industry) THEN userData.industry.s ELSE "your"]

\* AIDashboard of app.js: const insights = getAIInsights(userData)
LocalInsights == getAIInsights(userDataForDashboard(formData, score))

Types(seq) == {seq[i] : i \in DOMAIN seq}

\* C30: in app.js the score is at most 625; on the dashboard the risk level
\* is Medium or High, SBA Microloan is not recommended, there are one or two
\* loan recommendations with Fintech Term Loan among them, and at least one
\* credit improvement.
C30_HeuristicCeiling ==
    variant = "heuristic" =>
        /\ score # Null => (score.t = "number" /\ score.n <= 625)
        /\ (page = "dashboard" /\ PageShown) =>
            /\ userDataForDashboard(formData, score).riskLevel \in {"Medium", "High"}
            /\ "SBA Microloan" \notin Types(LocalInsights.loanRecommendations)
            /\ "Fintech Term Loan" \in Types(LocalInsights.loanRecommendations)
            /\ Len(LocalInsights.loanRecommendations) \in 1..2
            /\ Len(LocalInsights.creditImprovements) >= 1

\* the dashboard of app.js with the highest score, risk level Medium and
\* both loan recommendations
C30_Witness ==
    /\ variant = "heuristic"
    /\ page = "dashboard"
    /\ PageShown
    /\ score = Num(625)
    /\ userDataForDashboard(formData, score).riskLevel = "Medium"
    /\ Len(LocalInsights.loanRecommendations) = 2

====
